---- MODULE Spec2Model ----
(***************************************************************************)
(* A model of the video merger's command line tool                         *)
(* (src/src/videomerger/video_processor_cli.py) and of the web layer's     *)
(* placeholder VideoProcessor.merge_videos                                 *)
(* (src/src/videomerger/core/video_processor.py).                          *)
(*                                                                         *)
(* Each element of Procs is one invocation context (an operating system    *)
(* process running the tool, or a thread calling its functions) working in *)
(* one directory.  The only state they share is the file system: the       *)
(* manifest concat_list.txt and the output files.  merge_videos is cut     *)
(* into the steps at which it touches the file system or the transcoder,   *)
(* so that interleavings of two invocations are explored.                  *)
(***************************************************************************)
EXTENDS Naturals, Sequences, FiniteSets, TLC

\* ------------------------------------------------------------------ bounds
\* Longest input list that is explored.
MaxInputs == 3
\* Longest captured standard output of the probe, in characters.
MaxStdout == 2
\* Longest input list of the two callers that do not wait for each other.
MaxConcurrentInputs == 2
\* Longest --inputs list given on the command line.
MaxMainInputs == 2
\* Most returned merge_videos calls that are remembered.
MaxServed == 2

\* ------------------------------------------------------- the environment
Procs == {1, 2}
\* Files of the working directory that exist, and paths that do not.
ExistingFiles == {"a.mp4", "b.mp4"}
MissingFiles == {"x.mp4", "y.mp4"}
Paths == ExistingFiles \cup MissingFiles
OutputPaths == {"out.mp4"}
\* Tier strings a caller may pass; "ultra" is outside the closed mapping.
Tiers == {"low", "medium", "high", "ultra"}

SeqsUpTo(S, n) == UNION {[1..k -> S] : k \in 0..n}
InputLists == SeqsUpTo(Paths, MaxInputs)
ConcurrentInputLists == SeqsUpTo(Paths, MaxConcurrentInputs)
MainInputLists == SeqsUpTo(Paths, MaxMainInputs)

\* os.path.exists on an input path.
PathExists(path) == path \in ExistingFiles

\* What the transcoder may write to its standard error.
StderrTexts == {"", "invalid codec"}
\* Characters of the probe's standard output.
StdoutChars == {"v", "\n"}
StdoutTexts == SeqsUpTo(StdoutChars, MaxStdout)

\* str(e) of the exceptions the environment can raise at each call.
OpenError == "[Errno 13] Permission denied: 'concat_list.txt'"
WriteError == "[Errno 28] No space left on device"
SpawnError == "[Errno 2] No such file or directory: 'ffmpeg'"
RemoveError == "[Errno 2] No such file or directory: 'concat_list.txt'"

VARIABLES
    manifest,   \* the file concat_list.txt: [exists, lines]
    outputs,    \* output files written by VideoProcessor.merge_videos
    pc,         \* where each invocation stands
    call,       \* merge_videos' arguments
    fdLive,     \* the invocation's open file object still names the manifest
    cmd,        \* the command line built for the transcoder
    result,     \* the transcoder run: what it was started with, how it ended
    exc,        \* the exception being handled, as str(e)
    ret,        \* the value returned (or "raised")
    out,        \* last line printed to standard output
    err,        \* last line printed to standard error
    log,        \* the steps the running call has taken, in order
    touched,    \* another invocation changed the manifest under this call
    probe,      \* the probe's subprocess run
    main,       \* the parsed arguments of main(), when main is running
    exitCode,   \* the code given to sys.exit
    served      \* the invocations whose merge_videos calls have returned, in
                \* order (kept only where calls are counted)

vars == <<manifest, outputs, pc, call, fdLive, cmd, result, exc, ret, out,
          err, log, touched, probe, main, exitCode, served>>

NoManifest == [exists |-> FALSE, lines |-> <<>>]
NoCall == [fn |-> "none", input_paths |-> <<>>, output_path |-> "",
           quality |-> "", overwrite |-> FALSE]
NoResult == [started |-> FALSE, seen |-> NoManifest, exited |-> FALSE,
             returncode |-> 0, stderr |-> ""]
NoProbe == [started |-> FALSE, exited |-> FALSE, returncode |-> 0,
            stdout |-> <<>>]
NoMain == [running |-> FALSE, check_ffmpeg |-> FALSE, version |-> FALSE,
           merge |-> FALSE, inputs |-> <<>>, output |-> "",
           quality |-> "medium", overwrite |-> FALSE]
NoExit == [exited |-> FALSE, code |-> 0]
NoRet == [kind |-> "none", b |-> FALSE, s |-> <<>>, path |-> ""]
RetBool(v) == [kind |-> "bool", b |-> v, s |-> <<>>, path |-> ""]
RetStr(v) == [kind |-> "str", b |-> FALSE, s |-> v, path |-> ""]
RetPath(v) == [kind |-> "path", b |-> FALSE, s |-> <<>>, path |-> v]
RetRaised == [kind |-> "raised", b |-> FALSE, s |-> <<>>, path |-> ""]

\* ------------------------------------------------ merge_videos, the pure parts
\* concat_file, the fixed manifest name.
ConcatFile == "concat_list.txt"

\* ManifestLine without the quotes around the path.
ManifestLineUnquoted(path) == "file " \o path \o "\n"

\* One manifest line: f"file '{path}'\n".
ManifestLine(path) == "file '" \o path \o "'\n"

\* ManifestLines with the paths in reverse order.
ManifestLinesReversed(input_paths) ==
    [i \in 1..Len(input_paths) |->
        "file '" \o input_paths[Len(input_paths) + 1 - i] \o "'\n"]

\* The lines the loop over input_paths writes.
ManifestLines(input_paths) ==
    [i \in 1..Len(input_paths) |-> ManifestLine(input_paths[i])]

\* FirstMissing reporting the last missing path instead of the first.
RECURSIVE LastMissing(_)
LastMissing(input_paths) ==
    IF input_paths = <<>> THEN ""
    ELSE IF ~PathExists(input_paths[Len(input_paths)])
    THEN input_paths[Len(input_paths)]
    ELSE LastMissing(SubSeq(input_paths, 1, Len(input_paths) - 1))

\* The first input path that does not exist (the validation loop returns at it).
RECURSIVE FirstMissing(_)
FirstMissing(input_paths) ==
    IF input_paths = <<>> THEN ""
    ELSE IF ~PathExists(Head(input_paths)) THEN Head(input_paths)
    ELSE FirstMissing(Tail(input_paths))

HasMissing(input_paths) ==
    \E i \in 1..Len(input_paths) : ~PathExists(input_paths[i])

\* QualitySettings whose default is the low tier's parameter.
QualitySettingsWrongDefault(quality) ==
    CASE quality = "medium" -> <<"-crf", "23">>
      [] quality = "high" -> <<"-crf", "18">>
      [] OTHER -> <<"-crf", "28">>

\* quality_settings.get(quality, quality_settings['medium'])
QualitySettings(quality) ==
    CASE quality = "low" -> <<"-crf", "28">>
      [] quality = "medium" -> <<"-crf", "23">>
      [] quality = "high" -> <<"-crf", "18">>
      [] OTHER -> <<"-crf", "23">>

\* The command line handed to subprocess.run.
BuildCmd(output_path, quality, overwrite) ==
    <<"ffmpeg", "-f", "concat", "-safe", "0", "-i", ConcatFile,
      "-c:v", "libx264", "-preset", "medium">>
    \o QualitySettings(quality)
    \o <<"-c:a", "aac">>
    \o (IF overwrite THEN <<"-y">> ELSE <<>>)
    \o <<output_path>>

\* A buffered file object flushes at offset 0 of the file it opened: its lines
\* replace the first lines of what is there and leave any longer tail.
Overlay(old, new) ==
    new \o (IF Len(old) > Len(new) THEN SubSeq(old, Len(new) + 1, Len(old))
            ELSE <<>>)

\* TooFew with the limit off by one.
TooFewOffByOne(input_paths) == Len(input_paths) < 1

\* len(input_paths) < 2
TooFew(input_paths) == Len(input_paths) < 2

\* ------------------------------------------------- merge_videos, step by step
\* Another invocation that has opened the manifest and not yet started its
\* transcoder sees the manifest change under it.
Touch(p) ==
    [q \in Procs |->
        IF q # p /\ pc[q] \in {"write", "run"} THEN TRUE ELSE touched[q]]

\* Entry and validation: the length test and the existence loop.
EnterMerge(p, input_paths, output_path, quality, overwrite) ==
    /\ call' = [call EXCEPT ![p] =
                   [fn |-> "merge_videos", input_paths |-> input_paths,
                    output_path |-> output_path, quality |-> quality,
                    overwrite |-> overwrite]]
    /\ log' = [log EXCEPT ![p] = <<"validate">>]
    /\ IF TooFew(input_paths)
       THEN /\ err' = [err EXCEPT ![p] = "Error: At least 2 videos required"]
            /\ ret' = [ret EXCEPT ![p] = RetBool(FALSE)]
            /\ pc' = [pc EXCEPT ![p] = "done"]
       ELSE IF HasMissing(input_paths)
       THEN /\ err' = [err EXCEPT ![p] =
                         "Error: File not found: " \o FirstMissing(input_paths)]
            /\ ret' = [ret EXCEPT ![p] = RetBool(FALSE)]
            /\ pc' = [pc EXCEPT ![p] = "done"]
       ELSE /\ pc' = [pc EXCEPT ![p] = "open"]
            /\ UNCHANGED <<err, ret>>

\* open(concat_file, 'w'): creates or truncates the manifest, or raises.
OpenManifest(p) ==
    /\ pc[p] = "open"
    /\ \E ok \in BOOLEAN :
         IF ok
         THEN /\ manifest' = [exists |-> TRUE, lines |-> <<>>]
              /\ fdLive' = [fdLive EXCEPT ![p] = TRUE]
              /\ touched' = Touch(p)
              /\ log' = [log EXCEPT ![p] = Append(@, "open")]
              /\ pc' = [pc EXCEPT ![p] = "write"]
              /\ UNCHANGED exc
         ELSE /\ exc' = [exc EXCEPT ![p] = OpenError]
              /\ pc' = [pc EXCEPT ![p] = "except"]
              /\ UNCHANGED <<manifest, fdLive, touched, log>>
    /\ UNCHANGED <<outputs, call, cmd, result, ret, out, err, probe, main,
                   exitCode>>
    /\ UNCHANGED served

\* The write loop and the end of the with block: the buffered lines reach the
\* file when it is closed, or the write raises.
WriteManifest(p) ==
    /\ pc[p] = "write"
    /\ fdLive' = [fdLive EXCEPT ![p] = FALSE]
    /\ \E ok \in BOOLEAN :
         IF ok
         THEN /\ IF fdLive[p]
                 THEN /\ manifest' =
                           [exists |-> TRUE,
                            lines |-> Overlay(manifest.lines,
                                       ManifestLines(call[p].input_paths))]
                      /\ touched' = Touch(p)
                 ELSE UNCHANGED <<manifest, touched>>
              /\ log' = [log EXCEPT ![p] = Append(@, "write")]
              /\ pc' = [pc EXCEPT ![p] = "run"]
              /\ UNCHANGED exc
         ELSE /\ exc' = [exc EXCEPT ![p] = WriteError]
              /\ pc' = [pc EXCEPT ![p] = "except"]
              /\ UNCHANGED <<manifest, touched, log>>
    /\ UNCHANGED <<outputs, call, cmd, result, ret, out, err, probe, main,
                   exitCode>>
    /\ UNCHANGED served

\* The command is built and subprocess.run starts the transcoder, which
\* finds the manifest as it is now; or the start raises.
SpawnTranscoder(p) ==
    /\ pc[p] = "run"
    /\ cmd' = [cmd EXCEPT ![p] = BuildCmd(call[p].output_path,
                                          call[p].quality, call[p].overwrite)]
    /\ \E ok \in BOOLEAN :
         IF ok
         THEN /\ result' = [result EXCEPT ![p] =
                              [NoResult EXCEPT !.started = TRUE,
                                               !.seen = manifest]]
              /\ log' = [log EXCEPT ![p] = Append(@, "spawn")]
              /\ pc' = [pc EXCEPT ![p] = "wait"]
              /\ UNCHANGED exc
         ELSE /\ exc' = [exc EXCEPT ![p] = SpawnError]
              /\ pc' = [pc EXCEPT ![p] = "except"]
              /\ UNCHANGED <<result, log>>
    /\ UNCHANGED <<manifest, outputs, call, fdLive, ret, out, err, touched,
                   probe, main, exitCode>>
    /\ UNCHANGED served

\* AfterExit with a retry: a failed run is started again.
AfterExitRetry(returncode) == IF returncode # 0 THEN "run" ELSE "cleanup"

\* Where merge_videos goes when subprocess.run has returned.
AfterExit(returncode) == "cleanup"

\* The transcoder exits and subprocess.run returns its status and output.
TranscoderExit(p) ==
    /\ pc[p] = "wait"
    /\ \E rc \in {0, 1}, text \in StderrTexts :
         result' = [result EXCEPT ![p].exited = TRUE,
                                  ![p].returncode = rc,
                                  ![p].stderr = text]
    /\ log' = [log EXCEPT ![p] = Append(@, "exit")]
    /\ pc' = [pc EXCEPT ![p] = AfterExit(result'[p].returncode)]
    /\ UNCHANGED <<manifest, outputs, call, fdLive, cmd, exc, ret, out, err,
                   touched, probe, main, exitCode>>
    /\ UNCHANGED served

\* AfterCheck with the cleanup after the run forgotten.
AfterCheckNoCleanup(m) == "report"

\* if os.path.exists(concat_file), after the run.
AfterCheck(m) == IF m.exists THEN "remove" ELSE "report"

CheckManifest(p) ==
    /\ pc[p] = "cleanup"
    /\ pc' = [pc EXCEPT ![p] = AfterCheck(manifest)]
    /\ UNCHANGED <<manifest, outputs, call, fdLive, cmd, result, exc, ret, out,
                   err, log, touched, probe, main, exitCode>>
    /\ UNCHANGED served

\* os.remove(concat_file), after the run; a file that is gone by now makes it
\* raise FileNotFoundError, which the except clause catches.
RemoveManifest(p) ==
    /\ pc[p] = "remove"
    /\ IF manifest.exists
       THEN /\ manifest' = NoManifest
            /\ fdLive' = [q \in Procs |-> FALSE]
            /\ touched' = Touch(p)
            /\ log' = [log EXCEPT ![p] = Append(@, "remove")]
            /\ pc' = [pc EXCEPT ![p] = "report"]
            /\ UNCHANGED exc
       ELSE /\ exc' = [exc EXCEPT ![p] = RemoveError]
            /\ pc' = [pc EXCEPT ![p] = "except"]
            /\ UNCHANGED <<manifest, fdLive, touched, log>>
    /\ UNCHANGED <<outputs, call, cmd, result, ret, out, err, probe, main,
                   exitCode>>
    /\ UNCHANGED served

\* Succeeded taking every exit status for success.
SucceededAlways(returncode) == returncode >= 0

\* result.returncode == 0
Succeeded(returncode) == returncode = 0

\* The result is printed and returned.
ReportResult(p) ==
    /\ pc[p] = "report"
    /\ IF Succeeded(result[p].returncode)
       THEN /\ out' = [out EXCEPT ![p] =
                  "Successfully merged videos to " \o call[p].output_path]
            /\ ret' = [ret EXCEPT ![p] = RetBool(TRUE)]
            /\ UNCHANGED err
       ELSE /\ err' = [err EXCEPT ![p] =
                  "Error merging videos: " \o result[p].stderr]
            /\ ret' = [ret EXCEPT ![p] = RetBool(FALSE)]
            /\ UNCHANGED out
    /\ log' = [log EXCEPT ![p] = Append(@, "report")]
    /\ pc' = [pc EXCEPT ![p] = "done"]
    /\ UNCHANGED <<manifest, outputs, call, fdLive, cmd, result, exc, touched,
                   probe, main, exitCode>>
    /\ UNCHANGED served

\* AfterExceptCheck with the except clause's cleanup forgotten.
AfterExceptCheckNoCleanup(m) == "exreport"

\* if os.path.exists(concat_file), in the except clause.
AfterExceptCheck(m) == IF m.exists THEN "exremove" ELSE "exreport"

ExceptCheck(p) ==
    /\ pc[p] = "except"
    /\ log' = [log EXCEPT ![p] = Append(@, "caught")]
    /\ pc' = [pc EXCEPT ![p] = AfterExceptCheck(manifest)]
    /\ UNCHANGED <<manifest, outputs, call, fdLive, cmd, result, exc, ret, out,
                   err, touched, probe, main, exitCode>>
    /\ UNCHANGED served

\* os.remove(concat_file), in the except clause: nothing catches what it
\* raises, so a file that is gone by now makes merge_videos raise.
ExceptRemove(p) ==
    /\ pc[p] = "exremove"
    /\ IF manifest.exists
       THEN /\ manifest' = NoManifest
            /\ fdLive' = [q \in Procs |-> FALSE]
            /\ touched' = Touch(p)
            /\ log' = [log EXCEPT ![p] = Append(@, "remove")]
            /\ pc' = [pc EXCEPT ![p] = "exreport"]
            /\ UNCHANGED <<exc, ret>>
       ELSE /\ exc' = [exc EXCEPT ![p] = RemoveError]
            /\ ret' = [ret EXCEPT ![p] = RetRaised]
            /\ pc' = [pc EXCEPT ![p] = "done"]
            /\ UNCHANGED <<manifest, fdLive, touched, log>>
    /\ UNCHANGED <<outputs, call, cmd, result, out, err, probe, main,
                   exitCode>>
    /\ UNCHANGED served

\* print(f'Error: {str(e)}'); return False
ExceptReport(p) ==
    /\ pc[p] = "exreport"
    /\ err' = [err EXCEPT ![p] = "Error: " \o exc[p]]
    /\ ret' = [ret EXCEPT ![p] = RetBool(FALSE)]
    /\ log' = [log EXCEPT ![p] = Append(@, "report")]
    /\ pc' = [pc EXCEPT ![p] = "done"]
    /\ UNCHANGED <<manifest, outputs, call, fdLive, cmd, result, exc, out,
                   touched, probe, main, exitCode>>
    /\ UNCHANGED served

\* ------------------------------------------------------ the availability probe
\* 'unknown'
Unknown == "unknown"

\* FirstLine without the split: all of the output.
WholeOutput(stdout) == stdout

\* The characters before the first newline: stdout.split('\n')[0].
RECURSIVE FirstLine(_)
FirstLine(stdout) ==
    IF stdout = <<>> \/ Head(stdout) = "\n" THEN <<>>
    ELSE <<Head(stdout)>> \o FirstLine(Tail(stdout))

\* A sequence of characters as a string.
RECURSIVE Join(_)
Join(chars) == IF chars = <<>> THEN "" ELSE Head(chars) \o Join(Tail(chars))

\* check_ffmpeg's value: ran says that subprocess.run returned, rather than
\* raised (the executable is missing, the timeout expired).
CheckFfmpegValue(ran, returncode) == ran /\ returncode = 0

\* get_ffmpeg_version's value.
VersionValue(ran, returncode, stdout) ==
    IF ran /\ returncode = 0 THEN Join(FirstLine(stdout)) ELSE Unknown

\* Entry of check_ffmpeg or get_ffmpeg_version.
EnterProbe(p, fn) ==
    /\ call' = [call EXCEPT ![p] = [NoCall EXCEPT !.fn = fn]]
    /\ pc' = [pc EXCEPT ![p] = "probe"]
    /\ UNCHANGED <<log, err, ret>>

\* What the probe prints and returns.
ProbeFinish(p, ran, returncode, stdout) ==
    /\ IF call[p].fn = "check_ffmpeg"
       THEN /\ ret' = [ret EXCEPT ![p] =
                         RetBool(CheckFfmpegValue(ran, returncode))]
            /\ out' = [out EXCEPT ![p] =
                         IF CheckFfmpegValue(ran, returncode)
                         THEN "FFmpeg available" ELSE "FFmpeg not available"]
       ELSE /\ ret' = [ret EXCEPT ![p] =
                         RetStr(VersionValue(ran, returncode, stdout))]
            /\ out' = [out EXCEPT ![p] = VersionValue(ran, returncode, stdout)]
    /\ pc' = [pc EXCEPT ![p] = "done"]

\* subprocess.run(['ffmpeg', '-version'], timeout=5) starts the process, or
\* raises because it cannot.
ProbeSpawn(p) ==
    /\ pc[p] = "probe"
    /\ \E ok \in BOOLEAN :
         IF ok
         THEN /\ probe' = [probe EXCEPT ![p].started = TRUE]
              /\ pc' = [pc EXCEPT ![p] = "probe_wait"]
              /\ UNCHANGED <<ret, out>>
         ELSE /\ ProbeFinish(p, FALSE, 0, <<>>)
              /\ UNCHANGED probe
    /\ UNCHANGED <<manifest, outputs, call, fdLive, cmd, result, exc, err, log,
                   touched, main, exitCode>>
    /\ UNCHANGED served

\* The probe process exits within the timeout.
ProbeExit(p) ==
    /\ pc[p] = "probe_wait"
    /\ \E rc \in {0, 1}, text \in StdoutTexts :
         /\ probe' = [probe EXCEPT ![p].exited = TRUE,
                                   ![p].returncode = rc,
                                   ![p].stdout = text]
         /\ ProbeFinish(p, TRUE, rc, text)
    /\ UNCHANGED <<manifest, outputs, call, fdLive, cmd, result, exc, err, log,
                   touched, main, exitCode>>
    /\ UNCHANGED served

\* ProbeTimeout with the timeout argument forgotten: the wait is never cut.
ProbeNeverTimesOut(p) ==
    /\ pc[p] = "probe_wait"
    /\ FALSE
    /\ UNCHANGED vars

\* The timeout expires first: subprocess.run kills the process and raises
\* TimeoutExpired.
ProbeTimeout(p) ==
    /\ pc[p] = "probe_wait"
    /\ ProbeFinish(p, FALSE, 0, <<>>)
    /\ UNCHANGED <<manifest, outputs, call, fdLive, cmd, result, exc, err, log,
                   touched, probe, main, exitCode>>
    /\ UNCHANGED served

\* ------------------------------------------ VideoProcessor.merge_videos
\* not video_files or len(video_files) < 2
VPTooFew(video_files) == video_files = <<>> \/ Len(video_files) < 2

VPMergeVideos(p, video_files, output_path) ==
    /\ call' = [call EXCEPT ![p] =
                   [NoCall EXCEPT !.fn = "VideoProcessor.merge_videos",
                                  !.input_paths = video_files,
                                  !.output_path = output_path]]
    /\ IF VPTooFew(video_files)
       THEN /\ exc' = [exc EXCEPT ![p] =
                "ValueError: At least 2 video files are required for merging"]
            /\ ret' = [ret EXCEPT ![p] = RetRaised]
            /\ UNCHANGED outputs
       ELSE IF HasMissing(video_files)
       THEN /\ exc' = [exc EXCEPT ![p] =
                "FileNotFoundError: Video file not found: "
                    \o FirstMissing(video_files)]
            /\ ret' = [ret EXCEPT ![p] = RetRaised]
            /\ UNCHANGED outputs
       ELSE /\ outputs' = outputs \cup {output_path}
            /\ ret' = [ret EXCEPT ![p] = RetPath(output_path)]
            /\ UNCHANGED exc
    /\ pc' = [pc EXCEPT ![p] = "done"]
    /\ UNCHANGED <<manifest, fdLive, cmd, result, out, err, log, touched,
                   probe, main, exitCode>>

\* ------------------------------------------------------------------ main
\* The namespaces parse_args can return: inputs is None (here <<>>) or a list of
\* at least one path, output is None (here "") or a path.
Namespaces ==
    [running : {TRUE}, check_ffmpeg : BOOLEAN, version : BOOLEAN,
     merge : BOOLEAN, inputs : MainInputLists, output : {""} \cup OutputPaths,
     quality : {"low", "medium", "high"}, overwrite : BOOLEAN]

\* not args.inputs or not args.output
MergeArgsMissing(args) == args.inputs = <<>> \/ args.output = ""

\* ExitCodeAfter with the function's value ignored.
ExitCodeIgnoringValue(fn, r) == IF r.kind = "raised" THEN 1 ELSE 0

\* sys.exit(0 if ... else 1) after the function main called has returned; an
\* exception nothing caught ends the interpreter with status 1.
ExitCodeAfter(fn, r) ==
    IF r.kind = "raised" THEN 1
    ELSE IF fn = "get_ffmpeg_version" THEN 0
    ELSE IF r.b THEN 0 ELSE 1

\* main() from the parsed arguments to the function it calls, or to the exit.
MainDispatch(p, args) ==
    /\ main' = [main EXCEPT ![p] = args]
    /\ IF args.check_ffmpeg
       THEN EnterProbe(p, "check_ffmpeg") /\ UNCHANGED <<out, exitCode>>
       ELSE IF args.version
       THEN EnterProbe(p, "get_ffmpeg_version") /\ UNCHANGED <<out, exitCode>>
       ELSE IF args.merge
       THEN IF MergeArgsMissing(args)
            THEN /\ err' = [err EXCEPT ![p] =
                     "Error: --inputs and --output are required for merge"]
                 /\ exitCode' = [exitCode EXCEPT ![p] =
                                   [exited |-> TRUE, code |-> 1]]
                 /\ pc' = [pc EXCEPT ![p] = "exited"]
                 /\ UNCHANGED <<call, log, ret, out>>
            ELSE /\ EnterMerge(p, args.inputs, args.output, args.quality,
                               args.overwrite)
                 /\ UNCHANGED <<out, exitCode>>
       ELSE /\ out' = [out EXCEPT ![p] = "usage"]
            /\ exitCode' = [exitCode EXCEPT ![p] =
                              [exited |-> TRUE, code |-> 1]]
            /\ pc' = [pc EXCEPT ![p] = "exited"]
            /\ UNCHANGED <<call, log, err, ret>>

\* The function main called has returned: sys.exit.
MainExit(p) ==
    /\ pc[p] = "done"
    /\ main[p].running
    /\ exitCode' = [exitCode EXCEPT ![p] =
                      [exited |-> TRUE,
                       code |-> ExitCodeAfter(call[p].fn, ret[p])]]
    /\ pc' = [pc EXCEPT ![p] = "exited"]
    /\ UNCHANGED <<manifest, outputs, call, fdLive, cmd, result, exc, ret, out,
                   err, log, touched, probe, main>>
    /\ UNCHANGED served

\* ------------------------------------------------------------ the callers
\* No other invocation is under way.
Alone(p) == \A q \in Procs \ {p} : pc[q] = "idle"

\* A caller invokes merge_videos.
CallMergeVideos(p) ==
    /\ pc[p] = "idle"
    /\ Alone(p)
    /\ \E input_paths \in InputLists, output_path \in OutputPaths,
          quality \in Tiers, overwrite \in BOOLEAN :
         EnterMerge(p, input_paths, output_path, quality, overwrite)
    /\ UNCHANGED <<manifest, outputs, fdLive, cmd, result, exc, out, touched,
                   probe, main, exitCode>>
    /\ UNCHANGED served

CallCheckFfmpeg(p) ==
    /\ pc[p] = "idle"
    /\ Alone(p)
    /\ EnterProbe(p, "check_ffmpeg")
    /\ UNCHANGED <<manifest, outputs, fdLive, cmd, result, exc, out, touched,
                   probe, main, exitCode>>
    /\ UNCHANGED served

CallGetFfmpegVersion(p) ==
    /\ pc[p] = "idle"
    /\ Alone(p)
    /\ EnterProbe(p, "get_ffmpeg_version")
    /\ UNCHANGED <<manifest, outputs, fdLive, cmd, result, exc, out, touched,
                   probe, main, exitCode>>
    /\ UNCHANGED served

CallVideoProcessor(p) ==
    /\ pc[p] = "idle"
    /\ Alone(p)
    /\ \E video_files \in InputLists, output_path \in OutputPaths :
         VPMergeVideos(p, video_files, output_path)
    /\ UNCHANGED served

\* The tool is run from the command line.
RunMain(p) ==
    /\ pc[p] = "idle"
    /\ Alone(p)
    /\ \E args \in Namespaces : MainDispatch(p, args)
    /\ UNCHANGED <<manifest, outputs, fdLive, cmd, result, exc, touched, probe>>
    /\ UNCHANGED served

\* Two callers that do not wait for each other: merge_videos with its default
\* quality and overwrite.
CallMergeVideosConcurrently(p) ==
    /\ pc[p] = "idle"
    /\ \E input_paths \in ConcurrentInputLists, output_path \in OutputPaths :
         EnterMerge(p, input_paths, output_path, "medium", FALSE)
    /\ UNCHANGED <<manifest, outputs, fdLive, cmd, result, exc, out, touched,
                   probe, main, exitCode>>
    /\ UNCHANGED served

\* The invocation's locals are gone when its function has returned.
ForgetLocals(p) ==
    /\ \/ pc[p] = "done" /\ ~main[p].running
       \/ pc[p] = "exited"
    /\ pc' = [pc EXCEPT ![p] = "idle"]
    /\ call' = [call EXCEPT ![p] = NoCall]
    /\ cmd' = [cmd EXCEPT ![p] = <<>>]
    /\ result' = [result EXCEPT ![p] = NoResult]
    /\ exc' = [exc EXCEPT ![p] = ""]
    /\ ret' = [ret EXCEPT ![p] = NoRet]
    /\ out' = [out EXCEPT ![p] = ""]
    /\ err' = [err EXCEPT ![p] = ""]
    /\ log' = [log EXCEPT ![p] = <<>>]
    /\ touched' = [touched EXCEPT ![p] = FALSE]
    /\ probe' = [probe EXCEPT ![p] = NoProbe]
    /\ main' = [main EXCEPT ![p] = NoMain]
    /\ exitCode' = [exitCode EXCEPT ![p] = NoExit]
    /\ UNCHANGED <<manifest, outputs, fdLive>>

\* The caller has its answer.
Return(p) ==
    /\ ForgetLocals(p)
    /\ UNCHANGED served

\* The caller has its answer, and a returned merge_videos call is remembered.
ReturnCounted(p) ==
    /\ ForgetLocals(p)
    /\ served' = IF call[p].fn = "merge_videos" /\ Len(served) < MaxServed
                 THEN Append(served, p) ELSE served

\* ------------------------------------------------------- the specifications
Init ==
    /\ manifest = NoManifest
    /\ outputs = {}
    /\ pc = [p \in Procs |-> "idle"]
    /\ call = [p \in Procs |-> NoCall]
    /\ fdLive = [p \in Procs |-> FALSE]
    /\ cmd = [p \in Procs |-> <<>>]
    /\ result = [p \in Procs |-> NoResult]
    /\ exc = [p \in Procs |-> ""]
    /\ ret = [p \in Procs |-> NoRet]
    /\ out = [p \in Procs |-> ""]
    /\ err = [p \in Procs |-> ""]
    /\ log = [p \in Procs |-> <<>>]
    /\ touched = [p \in Procs |-> FALSE]
    /\ probe = [p \in Procs |-> NoProbe]
    /\ main = [p \in Procs |-> NoMain]
    /\ exitCode = [p \in Procs |-> NoExit]
    /\ served = <<>>

\* The steps of a merge_videos call that is under way.
MergeStep(p) ==
    \/ OpenManifest(p)
    \/ WriteManifest(p)
    \/ SpawnTranscoder(p)
    \/ TranscoderExit(p)
    \/ CheckManifest(p)
    \/ RemoveManifest(p)
    \/ ReportResult(p)
    \/ ExceptCheck(p)
    \/ ExceptRemove(p)
    \/ ExceptReport(p)

\* Invocations one after the other: every entry point of the tool.
Next ==
    \E p \in Procs :
        \/ CallMergeVideos(p)
        \/ CallCheckFfmpeg(p)
        \/ CallGetFfmpegVersion(p)
        \/ CallVideoProcessor(p)
        \/ RunMain(p)
        \/ MergeStep(p)
        \/ ProbeSpawn(p)
        \/ ProbeExit(p)
        \/ ProbeTimeout(p)
        \/ MainExit(p)
        \/ Return(p)

Spec == Init /\ [][Next]_vars

\* Two invocations of merge_videos in one working directory, not serialized:
\* each caller makes one call.
ConcurrentNext ==
    \E p \in Procs :
        \/ CallMergeVideosConcurrently(p)
        \/ MergeStep(p)

ConcurrentSpec == Init /\ [][ConcurrentNext]_vars

\* The functions called one after the other, with what the interpreter and
\* the timer of subprocess.run guarantee: a step of the program that can be
\* taken is taken, and the probe's timeout expires unless the process exits
\* first.  Nothing makes a caller call, the probe process exit or the
\* transcoder exit.
FairNext ==
    \E p \in Procs :
        \/ CallMergeVideos(p)
        \/ CallCheckFfmpeg(p)
        \/ CallGetFfmpegVersion(p)
        \/ MergeStep(p)
        \/ ProbeSpawn(p)
        \/ ProbeExit(p)
        \/ ProbeTimeout(p)
        \/ Return(p)

ProgramFairness ==
    \A p \in Procs :
        /\ WF_vars(OpenManifest(p))
        /\ WF_vars(WriteManifest(p))
        /\ WF_vars(SpawnTranscoder(p))
        /\ WF_vars(CheckManifest(p))
        /\ WF_vars(RemoveManifest(p))
        /\ WF_vars(ReportResult(p))
        /\ WF_vars(ExceptCheck(p))
        /\ WF_vars(ExceptRemove(p))
        /\ WF_vars(ExceptReport(p))
        /\ WF_vars(ProbeSpawn(p))
        /\ WF_vars(ProbeTimeout(p))

FairSpec == Init /\ [][FairNext]_vars /\ ProgramFairness

\* Calls of merge_videos one after the other, by either caller, in any order
\* and number.
SerialNext ==
    \E p \in Procs :
        \/ CallMergeVideos(p)
        \/ MergeStep(p)
        \/ ReturnCounted(p)

SerialSpec == Init /\ [][SerialNext]_vars

\* ------------------------------------------------------------ the claims
\* A call of merge_videos (made directly or by main) that has returned.
Returned(p) == call[p].fn = "merge_videos" /\ pc[p] \in {"done", "exited"}

\* The input list passes validation.
Valid(input_paths) ==
    /\ Len(input_paths) >= 2
    /\ \A i \in 1..Len(input_paths) : input_paths[i] \in ExistingFiles

\* C1: when invocations are made one after the other, the manifest
\* concat_list.txt does not exist once a call of merge_videos has returned,
\* whether validation failed, the transcoder exited with 0 or not, or an
\* exception was raised while the manifest was written or the process started.
C1_ManifestGoneAfterReturn ==
    \A p \in Procs : Returned(p) => ~manifest.exists

\* C1's case: a call that created the manifest, caught an exception, and has
\* returned.
C1_Witness ==
    \E p \in Procs :
        /\ Returned(p)
        /\ exc[p] = SpawnError
        /\ log[p] = <<"validate", "open", "write", "caught", "remove", "report">>

\* The step in which invocation p enters function fn with list l.
Enters(p, fns) ==
    /\ pc[p] = "idle"
    /\ pc'[p] # "idle"
    /\ call'[p].fn \in fns

\* C2: a call with fewer than 2 paths is over at once with the
\* insufficient-inputs error and has created nothing: merge_videos returns
\* False with "Error: At least 2 videos required", leaves the manifest as it
\* was and starts no process; VideoProcessor.merge_videos raises ValueError
\* and leaves the output files as they were.
C2_TooFewStep ==
    \A p \in Procs :
        (/\ Enters(p, {"merge_videos", "VideoProcessor.merge_videos"})
         /\ Len(call'[p].input_paths) < 2)
        => /\ pc'[p] = "done"
           /\ manifest' = manifest
           /\ outputs' = outputs
           /\ ~result'[p].started
           /\ cmd'[p] = <<>>
           /\ call'[p].fn = "merge_videos"
                => /\ ret'[p] = RetBool(FALSE)
                   /\ err'[p] = "Error: At least 2 videos required"
           /\ call'[p].fn = "VideoProcessor.merge_videos"
                => /\ ret'[p] = RetRaised
                   /\ exc'[p] = "ValueError: At least 2 video files are required for merging"

\* C2, over every step: a call with fewer than 2 paths fails with the
\* insufficient-inputs error and creates nothing.
C2_InsufficientInputs == [][C2_TooFewStep]_vars

\* C2's case: merge_videos has returned from a call with one path, after
\* VideoProcessor.merge_videos had written an output file in an earlier call.
C2_Witness ==
    \E p \in Procs :
        /\ Returned(p)
        /\ Len(call[p].input_paths) = 1
        /\ ret[p] = RetBool(FALSE)
        /\ outputs # {}

\* The first path of l, in order, that does not exist.
FirstNonexistent(l) ==
    l[CHOOSE i \in 1..Len(l) :
        /\ l[i] \notin ExistingFiles
        /\ \A j \in 1..(i - 1) : l[j] \in ExistingFiles]

\* C3: a call with at least 2 paths of which one does not exist is over at
\* once with the missing-file error naming the first nonexistent path in
\* input order, and has written no manifest, started no process and written
\* no output file.
C3_MissingStep ==
    \A p \in Procs :
        (/\ Enters(p, {"merge_videos", "VideoProcessor.merge_videos"})
         /\ Len(call'[p].input_paths) >= 2
         /\ \E i \in 1..Len(call'[p].input_paths) :
                call'[p].input_paths[i] \notin ExistingFiles)
        => /\ pc'[p] = "done"
           /\ manifest' = manifest
           /\ outputs' = outputs
           /\ ~result'[p].started
           /\ cmd'[p] = <<>>
           /\ call'[p].fn = "merge_videos"
                => /\ ret'[p] = RetBool(FALSE)
                   /\ err'[p] = "Error: File not found: "
                                   \o FirstNonexistent(call'[p].input_paths)
           /\ call'[p].fn = "VideoProcessor.merge_videos"
                => /\ ret'[p] = RetRaised
                   /\ exc'[p] = "FileNotFoundError: Video file not found: "
                                   \o FirstNonexistent(call'[p].input_paths)

\* C3, over every step: a call with a nonexistent path fails naming the first
\* one and creates nothing.
C3_MissingFile == [][C3_MissingStep]_vars

\* C3's case: a list with two different nonexistent paths after an existing
\* one; the error names the first of them.
C3_Witness ==
    \E p \in Procs :
        /\ Returned(p)
        /\ call[p].input_paths = <<"a.mp4", "y.mp4", "x.mp4">>
        /\ err[p] = "Error: File not found: y.mp4"

\* The manifest file that lists l: one line "file '<path>'" per path, in order.
Listing(l) ==
    [exists |-> TRUE,
     lines |-> [i \in 1..Len(l) |-> "file '" \o l[i] \o "'\n"]]

\* C4: with two invocations of merge_videos that overlap in one working
\* directory, a transcoder is started with a manifest other than the listing
\* of its own call's inputs only when the other invocation has truncated,
\* written or deleted concat_list.txt under it; and that does happen (the
\* witness): one transcoder is started on the other call's list, the other on
\* a manifest that is already deleted.
C4_OnlyTheRaceCorrupts ==
    \A p \in Procs :
        (result[p].started /\ result[p].seen # Listing(call[p].input_paths))
        => touched[p]

\* C4's case: p's transcoder was started while the manifest held q's list, and
\* q's transcoder was started after p had deleted the manifest.
C4_Witness ==
    \E p, q \in Procs :
        /\ p # q
        /\ result[p].started
        /\ result[q].started
        /\ call[p].input_paths # call[q].input_paths
        /\ result[p].seen = Listing(call[q].input_paths)
        /\ ~result[q].seen.exists

\* C5: once validation has passed, a call of merge_videos that is over has
\* returned a value and not raised: True with the success message naming the
\* output path when the transcoder exited with 0, False with the captured
\* standard error when it exited with another status, and False with the
\* exception's message, the manifest deleted, when writing the manifest or
\* starting the process raised.
C5_EveryOutcomeIsAResult ==
    \A p \in Procs :
        (Returned(p) /\ Valid(call[p].input_paths))
        => /\ ret[p].kind = "bool"
           /\ (result[p].exited /\ result[p].returncode = 0)
                => /\ ret[p].b
                   /\ out[p] = "Successfully merged videos to "
                                  \o call[p].output_path
           /\ (result[p].exited /\ result[p].returncode # 0)
                => /\ ~ret[p].b
                   /\ err[p] = "Error merging videos: " \o result[p].stderr
           /\ ~result[p].exited
                => /\ ~ret[p].b
                   /\ exc[p] \in {OpenError, WriteError, SpawnError}
                   /\ err[p] = "Error: " \o exc[p]
                   /\ ~manifest.exists

\* C5's case: the transcoder exited with a nonzero status and a message, and
\* the call returned False with that message.
C5_Witness ==
    \E p \in Procs :
        /\ Returned(p)
        /\ result[p].exited
        /\ result[p].returncode = 1
        /\ ret[p] = RetBool(FALSE)
        /\ err[p] = "Error merging videos: invalid codec"

\* C6: the manifest the transcoder is started with lists exactly the input
\* paths, one quoted entry per line, in the order supplied, repeated paths
\* included.
C6_ManifestListsInputsInOrder ==
    \A p \in Procs :
        result[p].started
        => /\ result[p].seen.exists
           /\ Len(result[p].seen.lines) = Len(call[p].input_paths)
           /\ \A i \in 1..Len(call[p].input_paths) :
                result[p].seen.lines[i]
                    = "file '" \o call[p].input_paths[i] \o "'\n"

\* C6's case: a transcoder started on a list with a repeated path.
C6_Witness ==
    \E p \in Procs :
        /\ result[p].started
        /\ call[p].input_paths = <<"b.mp4", "a.mp4", "b.mp4">>
        /\ result[p].seen.lines
             = <<"file 'b.mp4'\n", "file 'a.mp4'\n", "file 'b.mp4'\n">>

\* s is the first line of the output text: the characters before its first
\* newline, or all of it when it has none.
IsFirstLineOf(s, text) ==
    \E k \in 0..Len(text) :
        /\ \A i \in 1..k : text[i] # "\n"
        /\ k = Len(text) \/ text[k + 1] = "\n"
        /\ s = Join(SubSeq(text, 1, k))

\* The probe process was started and has exited with status 0.
ProbeSucceeded(p) ==
    probe[p].started /\ probe[p].exited /\ probe[p].returncode = 0

\* C7: a probe that is over has returned a value and not raised.  check_ffmpeg
\* returns True exactly when the process started and exited with status 0;
\* get_ffmpeg_version returns the first line of the standard output in that
\* case and "unknown" in every other (nonzero exit, timeout, exception).
C7_ProbeNeverRaises ==
    \A p \in Procs :
        /\ (call[p].fn = "check_ffmpeg" /\ pc[p] \in {"done", "exited"})
             => /\ ret[p].kind = "bool"
                /\ ret[p].b <=> ProbeSucceeded(p)
        /\ (call[p].fn = "get_ffmpeg_version" /\ pc[p] \in {"done", "exited"})
             => /\ ret[p].kind = "str"
                /\ IF ProbeSucceeded(p)
                   THEN IsFirstLineOf(ret[p].s, probe[p].stdout)
                   ELSE ret[p].s = "unknown"

\* C7's case: the probe exited with 0 and printed a line and a newline; the
\* version is the line.
C7_Witness ==
    \E p \in Procs :
        /\ call[p].fn = "get_ffmpeg_version"
        /\ pc[p] = "done"
        /\ ProbeSucceeded(p)
        /\ probe[p].stdout = <<"v", "\n">>
        /\ ret[p].s = "v"

\* The encoder parameter of a quality tier.
Crf(quality) ==
    IF quality = "low" THEN "28"
    ELSE IF quality = "high" THEN "18"
    ELSE "23"

\* C8: the command given to the transcoder carries exactly one -crf parameter,
\* 28 for low, 23 for medium, 18 for high and 23 for every other tier string;
\* it carries -y exactly when overwrite is true; and its last argument is the
\* output path.
C8_CommandCarriesTheTier ==
    \A p \in Procs :
        cmd[p] # <<>>
        => LET n == Len(cmd[p])
               options == SubSeq(cmd[p], 1, n - 1)
               at == {i \in 1..(n - 1) : options[i] = "-crf"}
           IN /\ Cardinality(at) = 1
              /\ \A i \in at : i + 1 <= n - 1 /\ options[i + 1] = Crf(call[p].quality)
              /\ (\E i \in 1..(n - 1) : options[i] = "-y") <=> call[p].overwrite
              /\ cmd[p][n] = call[p].output_path

\* C8's case: a command built for a tier outside the mapping, with overwrite.
C8_Witness ==
    \E p \in Procs :
        /\ call[p].quality = "ultra"
        /\ call[p].overwrite
        /\ cmd[p] = <<"ffmpeg", "-f", "concat", "-safe", "0", "-i",
                      "concat_list.txt", "-c:v", "libx264", "-preset",
                      "medium", "-crf", "23", "-c:a", "aac", "-y", "out.mp4">>

\* The transcoder of p's merge was started and has exited with status 0.
MergeSucceeded(p) ==
    result[p].started /\ result[p].exited /\ result[p].returncode = 0

IsPrefix(s, t) == Len(s) <= Len(t) /\ s = SubSeq(t, 1, Len(s))

\* The orders in which one call of merge_videos can take its steps: the run,
\* and an exception at open, at the write, at the start of the process.
StepOrders ==
    {<<"validate", "open", "write", "spawn", "exit", "remove", "report">>,
     <<"validate", "caught", "report">>,
     <<"validate", "open", "caught", "remove", "report">>,
     <<"validate", "open", "write", "caught", "remove", "report">>}

\* C10, in every state: the steps a call has taken are the beginning of one of
\* the fixed orders, and the process was started exactly when the log says so.
C10_InOrder ==
    \A p \in Procs :
        call[p].fn = "merge_videos"
        => /\ \E order \in StepOrders : IsPrefix(log[p], order)
           /\ result[p].started
                <=> (\E i \in 1..Len(log[p]) : log[p][i] = "spawn")

\* C10, in every step: what creates, reads and deletes the manifest does so at
\* its place in the order.
C10_Step ==
    \* The manifest is created by a call whose inputs have all been validated.
    /\ (~manifest.exists /\ manifest'.exists)
         => \E p \in Procs :
              /\ log[p] = <<"validate">>
              /\ log'[p] = <<"validate", "open">>
              /\ Valid(call[p].input_paths)
    \* The process is started on the completely written manifest.
    /\ \A p \in Procs :
         (~result[p].started /\ result'[p].started)
         => /\ log'[p] = <<"validate", "open", "write", "spawn">>
            /\ manifest = Listing(call[p].input_paths)
    \* The manifest is deleted when the process, if started, has exited, and
    \* before the result is reported.
    /\ (manifest.exists /\ ~manifest'.exists)
         => \E p \in Procs :
              /\ log'[p] = Append(log[p], "remove")
              /\ result[p].started => result[p].exited
              /\ ret[p].kind = "none"
    \* The result of a call that passed validation is reported with the
    \* manifest gone.
    /\ \A p \in Procs :
         (/\ call[p].fn = "merge_videos"
          /\ Valid(call[p].input_paths)
          /\ ret[p].kind = "none"
          /\ ret'[p].kind # "none")
         => ~manifest'.exists /\ log'[p] = Append(log[p], "report")

\* C10: within one call of merge_videos the steps are taken in a fixed order
\* and each at most once: validation of all inputs, creation of the manifest,
\* its complete writing, the start of the process (once, with no retry), its
\* exit, the deletion of the manifest, the report of the result.
C10_FixedOrder == []C10_InOrder /\ [][C10_Step]_vars

\* C10's case: a call whose transcoder failed has reported its result, having
\* started the process once and deleted the manifest before.
C10_Witness ==
    \E p \in Procs :
        /\ Returned(p)
        /\ result[p].returncode = 1
        /\ log[p] = <<"validate", "open", "write", "spawn", "exit", "remove",
                      "report">>

\* A probe (check_ffmpeg or get_ffmpeg_version) is under way.
Probing(p) == pc[p] \in {"probe", "probe_wait"}

\* C11, the probe: a probe that is under way returns, whether or not its
\* process ever exits.
C11_ProbeReturns ==
    \A p \in Procs : Probing(p) ~> (pc[p] = "done")

\* C11, merge_videos going on: a call that passed validation gets its
\* transcoder started or returns, and once the transcoder has exited the call
\* returns.
C11_MergeReturnsAfterExit ==
    \A p \in Procs :
        /\ (pc[p] \in {"open", "write", "run"})
             ~> (result[p].started \/ pc[p] = "done")
        /\ (call[p].fn = "merge_videos" /\ result[p].exited)
             ~> (pc[p] = "done")

\* C11, merge_videos waiting: the wait for the transcoder ends only by the
\* transcoder's exit (there is no timeout), a call whose transcoder was
\* started has not returned before the transcoder exited, and when it has
\* returned the manifest is deleted.
C11_WaitEndsOnlyByExit ==
    \A p \in Procs :
        (pc[p] = "wait" /\ pc'[p] # "wait")
        => (result'[p].exited /\ ~result[p].exited /\ pc'[p] = "cleanup")

C11_ReturnedAfterExit ==
    \A p \in Procs :
        Returned(p)
        => /\ result[p].started => result[p].exited
           /\ ~manifest.exists

\* C11: the probe always returns, even if its process never exits, because
\* its wait is cut by the timeout; merge_videos has no timeout: it returns
\* when the transcoder exits or cannot be started, not before the exit of a
\* transcoder it started, and it returns with the manifest deleted.
C11_ProbeBoundedMergeNot ==
    /\ C11_ProbeReturns
    /\ C11_MergeReturnsAfterExit
    /\ [][C11_WaitEndsOnlyByExit]_vars
    /\ []C11_ReturnedAfterExit

\* C11's case: a probe whose process did not exit has returned False by the
\* timeout.
C11_Witness ==
    \E p \in Procs :
        /\ call[p].fn = "check_ffmpeg"
        /\ pc[p] = "done"
        /\ probe[p].started
        /\ ~probe[p].exited
        /\ ret[p] = RetBool(FALSE)

\* C12: when the calls of merge_videos in one working directory are made one
\* after the other, however many and by whichever caller, every transcoder is
\* started with the manifest that lists its own call's inputs, and the
\* manifest does not exist between calls: not when no call is under way, not
\* when a call has passed validation and not yet created it, not when a call
\* has returned.
C12_SerializedCallsAreSafe ==
    /\ \A p \in Procs :
         result[p].started => result[p].seen = Listing(call[p].input_paths)
    /\ (\A p \in Procs : pc[p] \in {"idle", "open", "done"})
         => ~manifest.exists

\* C12's case: after a call by the first caller and then one by the second
\* have returned, the first caller's next call, with another list, has its
\* transcoder started on its own list.
C12_Witness ==
    /\ served = <<1, 2>>
    /\ result[1].started
    /\ call[1].input_paths = <<"b.mp4", "a.mp4", "a.mp4">>
    /\ result[1].seen.lines
         = <<"file 'b.mp4'\n", "file 'a.mp4'\n", "file 'a.mp4'\n">>

====
